---- MODULE Spec2Model ----
(***************************************************************************)
(* ForzudoOS: the 5/3/1 cycle engine (context.py), the reminder parser     *)
(* (parser.py) and the reminder scheduler with its local job file and its  *)
(* remote reminders database (scheduler.py, notion.py).                    *)
(*                                                                         *)
(* Optional values (Python's None) are sets of at most one element:        *)
(* None is {} and a present value x is {x}.                                *)
(***************************************************************************)
EXTENDS Integers, Sequences, FiniteSets, TLC

VARIABLES total_sessions, cycle_state, expected,
          file, file_keys, pages, notion, held, allocated, now, ev,
          parsed, procs, context

cycleVars == <<total_sessions, cycle_state, expected>>
schedVars == <<file, file_keys, pages, notion, held, allocated, now, ev>>
parseVars == <<parsed>>
procVars == <<procs>>
ctxVars == <<context>>
vars == <<total_sessions, cycle_state, expected,
          file, file_keys, pages, notion, held, allocated, now, ev, parsed, procs, context>>

None == {}
Some(x) == {x}
Val(o) == CHOOSE x \in o : TRUE

Min(a, b) == IF a <= b THEN a ELSE b

(***************************************************************************)
(* Bounds of the model.                                                    *)
(***************************************************************************)
MaxSessions == 90
MaxBumps == 8
MaxTime == 3
MaxDays == 60

(***************************************************************************)
(* context.py: configuration tables.                                       *)
(***************************************************************************)
Lifts == {"ohp", "deadlift", "bench", "squat"}

TRAINING_MAX == [l \in Lifts |->
    CASE l = "ohp" -> 58 [] l = "deadlift" -> 140 [] l = "bench" -> 76 [] l = "squat" -> 80]

TM_INCREMENT == [l \in Lifts |->
    CASE l = "ohp" -> 2 [] l = "deadlift" -> 4 [] l = "bench" -> 2 [] l = "squat" -> 4]

MACRO_CYCLE_LENGTH == 7

\* Percentages are kept as integer percents: 0.65 is 65.
CYCLE_WEEKS == [w \in 1..4 |->
    CASE w = 1 -> [name |-> "Semana 5s",
                   sets |-> << [pct |-> 65, reps |-> "5"], [pct |-> 75, reps |-> "5"], [pct |-> 85, reps |-> "5+"] >>]
      [] w = 2 -> [name |-> "Semana 3s",
                   sets |-> << [pct |-> 70, reps |-> "3"], [pct |-> 80, reps |-> "3"], [pct |-> 90, reps |-> "3+"] >>]
      [] w = 3 -> [name |-> "Semana 531",
                   sets |-> << [pct |-> 75, reps |-> "5"], [pct |-> 85, reps |-> "3"], [pct |-> 95, reps |-> "1+"] >>]
      [] w = 4 -> [name |-> "Deload",
                   sets |-> << [pct |-> 40, reps |-> "5"], [pct |-> 50, reps |-> "5"], [pct |-> 60, reps |-> "5"] >>]]

(***************************************************************************)
(* context.py: get_cycle_state.                                            *)
(***************************************************************************)
\* Mutant: weeks 4-6 keep their number instead of restarting at 1.
week_type_of_NoOffset(week_in_macro) ==
    IF week_in_macro <= 3 THEN week_in_macro
    ELSE IF week_in_macro <= 6 THEN week_in_macro
    ELSE 4

week_type_of(week_in_macro) ==
    IF week_in_macro <= 3 THEN week_in_macro
    ELSE IF week_in_macro <= 6 THEN week_in_macro - 3
    ELSE 4

\* Mutant: the current macro-cycle is counted as completed too.
bump_step_AllTwo(m, macro_num, week_in_macro) == 2

\* Mutant: a completed macro-cycle counts one bump instead of two.
bump_step_OnePerMacro(m, macro_num, week_in_macro) ==
    IF m < macro_num - 1 THEN 1
    ELSE (IF week_in_macro > 3 THEN 1 ELSE 0) + (IF week_in_macro > 6 THEN 1 ELSE 0)

\* The body of the loop "for m in range(macro_num)": what iteration m adds.
bump_step(m, macro_num, week_in_macro) ==
    IF m < macro_num - 1 THEN 2
    ELSE (IF week_in_macro > 3 THEN 1 ELSE 0) + (IF week_in_macro > 6 THEN 1 ELSE 0)

\* The loop itself, from iteration m on, with the running total acc.
RECURSIVE tm_bumps_loop(_, _, _, _)
tm_bumps_loop(m, macro_num, week_in_macro, acc) ==
    IF m >= macro_num THEN acc
    ELSE tm_bumps_loop(m + 1, macro_num, week_in_macro,
                       acc + bump_step(m, macro_num, week_in_macro))

get_cycle_state(n) ==
    LET completed_weeks == n \div 4
        macro_num == (completed_weeks \div MACRO_CYCLE_LENGTH) + 1
        week_in_macro == (completed_weeks % MACRO_CYCLE_LENGTH) + 1
        week_type == week_type_of(week_in_macro)
    IN  [week_in_macro |-> week_in_macro,
         week_type |-> week_type,
         week_name |-> IF week_type \in DOMAIN CYCLE_WEEKS
                       THEN CYCLE_WEEKS[week_type].name ELSE "?",
         macro_num |-> macro_num,
         tm_bumps_completed |-> tm_bumps_loop(0, macro_num, week_in_macro, 0),
         completed_weeks |-> completed_weeks]

(***************************************************************************)
(* context.py: training max and expected weights.                          *)
(***************************************************************************)
get_effective_tm(lift, tm_bumps) ==
    (IF lift \in Lifts THEN TRAINING_MAX[lift] ELSE 0)
    + (IF lift \in Lifts THEN TM_INCREMENT[lift] ELSE 2) * tm_bumps

\* Percentages whose binary floating-point value is exact (0.5, 0.75): the
\* product tm * pct is then exact as well.
ExactPct == {50, 75}

\* Mutant: round(weight), to the nearest kilogram.
round_to_plate_Unit(tm, pct) == {(tm * pct + 50) \div 100}

\* round(weight / 2) * 2 for weight = tm * pct / 100.  Python's round is
\* round-half-to-even.  The code multiplies by the floating-point value of
\* the percentage, so when the exact quotient lies on a half and the
\* percentage is not exact in binary, the product can fall on either side
\* of the half (90 * 0.7 / 2 is 31.499999999999996): both outcomes are kept.
round_to_plate(tm, pct) ==
    LET num == tm * pct
        q == num \div 200
        r == num % 200
    IN  IF r < 100 THEN {q * 2}
        ELSE IF r > 100 THEN {(q + 1) * 2}
        ELSE IF pct \in ExactPct THEN {(IF q % 2 = 0 THEN q ELSE q + 1) * 2}
        ELSE {q * 2, (q + 1) * 2}

\* The set of lists get_expected_weights can return (one per outcome of the
\* rounding of each set; every week has three sets); None is the empty option.
get_expected_weights(lift, week, tm_bumps) ==
    LET tm == get_effective_tm(lift, tm_bumps) IN
    IF tm = 0 THEN {None}
    ELSE IF week \notin DOMAIN CYCLE_WEEKS THEN {None}
    ELSE LET s == CYCLE_WEEKS[week].sets
             entry(i, w) == [pct |-> s[i].pct, reps |-> s[i].reps, weight |-> w]
         IN  { Some(<< entry(1, w1), entry(2, w2), entry(3, w3) >>) :
                 w1 \in round_to_plate(tm, s[1].pct),
                 w2 \in round_to_plate(tm, s[2].pct),
                 w3 \in round_to_plate(tm, s[3].pct) }

(***************************************************************************)
(* context.py: get_next_session, WorkoutContext, build_context,            *)
(* format_context_message.                                                 *)
(*                                                                         *)
(* Elapsed time since the last workout is counted in tenths of an hour, so *)
(* that 48.0 h is 480 and 48.1 h is 481.                                   *)
(***************************************************************************)
Hours(h) == h * 10

DAY_CONFIG == [d \in 1..4 |->
    CASE d = 1 -> [name |-> "Dia 1 - OHP", main_lift |-> "ohp", focus |-> "Press + Hombros"]
      [] d = 2 -> [name |-> "Dia 2 - Deadlift", main_lift |-> "deadlift", focus |-> "Peso Muerto"]
      [] d = 3 -> [name |-> "Dia 3 - Bench", main_lift |-> "bench", focus |-> "Press de Banca"]
      [] d = 4 -> [name |-> "Dia 4 - Squat", main_lift |-> "squat", focus |-> "Sentadilla"]]

\* The set of dicts get_next_session can return (one per outcome of the rounding).
get_next_session(day_num, cs) ==
    LET day_config == IF day_num \in DOMAIN DAY_CONFIG THEN DAY_CONFIG[day_num] ELSE DAY_CONFIG[1]
        lift == day_config.main_lift
    IN  { [day_name |-> day_config.name,
           focus |-> day_config.focus,
           main_lift |-> lift,
           week_name |-> cs.week_name,
           macro_num |-> cs.macro_num,
           week_in_macro |-> cs.week_in_macro,
           working_sets |-> IF weights = None THEN <<>> ELSE Val(weights)] :
          weights \in get_expected_weights(lift, cs.week_type, cs.tm_bumps_completed) }

is_deload_week(ctx) == ctx.cycle_state.week_type = 4

days_until_deload(ctx) ==
    IF ctx.cycle_state.week_in_macro >= 7 THEN 0
    ELSE 7 - ctx.cycle_state.week_in_macro

\* last_workout is None or a WorkoutEntry, of which the model keeps how long
\* ago its fecha is (hours_ago, in tenths of an hour) and peso_top;
\* days_since_start is (datetime.now() - program_start).days.
build_context(last_workout, days_since_start) ==
    LET hours_since == IF last_workout # None THEN Some(Val(last_workout).hours_ago) ELSE None
        estimated_sessions == (days_since_start \div 7) * 4
        cycle == get_cycle_state(estimated_sessions)
        next_day == (estimated_sessions % 4) + 1
    IN  { [last_workout |-> last_workout,
           hours_since_last |-> hours_since,
           cycle_state |-> cycle,
           next_session |-> next_sess,
           needs_deload |-> (cycle.week_in_macro = 7),
           missed_workout |-> (hours_since # None /\ Val(hours_since) > Hours(48))] :
          next_sess \in get_next_session(next_day, cycle) }

\* The message is kept as the list of its lines, each line by what it shows.
format_context_message(ctx) ==
    IF ctx.last_workout = None THEN << "sin registro" >>
    ELSE
      LET header == IF ctx.missed_workout THEN << "llevas h sin entrenar" >>
                    ELSE IF is_deload_week(ctx) THEN << "semana de deload" >>
                    ELSE << "semana y macro" >>
          ultimo == << "ultimo", "fecha" >>
                    \o (IF Val(ctx.last_workout).peso_top > 0 THEN << "top" >> ELSE << >>)
          ns == ctx.next_session
          proximo == IF ~ is_deload_week(ctx)
                     THEN << "proximo", "focus" >>
                          \o (IF Len(ns.working_sets) > 0
                              THEN << "sets" >> \o [i \in 1..Len(ns.working_sets) |-> "set"]
                              ELSE << >>)
                     ELSE << >>
          alert == IF 0 < days_until_deload(ctx) /\ days_until_deload(ctx) <= 3
                   THEN << "deload en dias" >> ELSE << >>
      IN  header \o ultimo \o proximo \o alert

(***************************************************************************)
(* parser.py: the enums and ReminderIntent.parse.                          *)
(*                                                                         *)
(* An enum member is its auto() value; its name is looked up.              *)
(***************************************************************************)
TIME_BASED == 1
CONDITIONAL == 2
RECURRING == 3
EVENT_BASED == 4
TriggerType == {TIME_BASED, CONDITIONAL, RECURRING, EVENT_BASED}
TriggerTypeName == [t \in TriggerType |->
    CASE t = TIME_BASED -> "TIME_BASED" [] t = CONDITIONAL -> "CONDITIONAL"
      [] t = RECURRING -> "RECURRING" [] t = EVENT_BASED -> "EVENT_BASED"]

NOTIFY == 1
ASK == 2
REMIND == 3
ActionType == {NOTIFY, ASK, REMIND}
ActionTypeName == [a \in ActionType |->
    CASE a = NOTIFY -> "NOTIFY" [] a = ASK -> "ASK" [] a = REMIND -> "REMIND"]

\* dict.get(key, default)
DictGet(d, k, default) == IF k \in DOMAIN d THEN d[k] ELSE default

\* A text is described by what the three regular expressions of parse find
\* in it: no_training is the match of the no-training pattern (the digit
\* group by its length and its value, and the unit group, "" when the unit
\* group did not take part), deload the digit group of the deload-warning
\* pattern, next_session whether the next-session pattern matches.  label
\* tells texts with equal matches apart.  head is the text's first 50
\* characters when the text is longer than that.
Text(label, nt, dl, ns) ==
    [label |-> label, no_training |-> nt, deload |-> dl, next_session |-> ns, head |-> None]

\* A digit group: its length and the number it denotes.
Digits(n, value) == [digits |-> n, value |-> value]

\* raw_text[:50]
First50(text) == IF text.head = None THEN text ELSE Val(text.head)

\* int(s) raises ValueError for a digit string longer than the interpreter's
\* limit for integer string conversion (Python 3.11 on, which "from typing
\* import Self" requires).
INT_MAX_STR_DIGITS == 4300

int_raises(group) == group.digits > INT_MAX_STR_DIGITS

\* Mutant: the deload-warning pattern is tried before the no-training one.
matched_pattern_DeloadFirst(text) ==
    IF text.deload # None THEN "deload_warning"
    ELSE IF text.no_training # None THEN "no_training"
    ELSE IF text.next_session THEN "next_session"
    ELSE "default"

\* The chain of "if re.search(...)": the first pattern that matches.
matched_pattern(text) ==
    IF text.no_training # None THEN "no_training"
    ELSE IF text.deload # None THEN "deload_warning"
    ELSE IF text.next_session THEN "next_session"
    ELSE "default"

\* Mutant: days count as hours.
hours_of_NoDays(amount, unit) == amount

\* hours = amount if unit == "h" else amount * 24
hours_of(amount, unit) == IF unit = "h" THEN amount ELSE amount * 24

\* Whether parse(text) raises: the int() of the branch taken.
parse_raises(text) ==
    CASE matched_pattern(text) = "no_training" -> int_raises(Val(text.no_training).number)
      [] matched_pattern(text) = "deload_warning" -> int_raises(Val(text.deload))
      [] OTHER -> FALSE

\* The intent parse(text) returns when it does not raise.
parse(text) ==
    CASE matched_pattern(text) = "no_training" ->
        LET m == Val(text.no_training)
            amount == m.number.value
            unit == IF m.unit # "" THEN m.unit ELSE "h"
            hours == hours_of(amount, unit)
        IN  [raw_text |-> text,
             trigger_type |-> CONDITIONAL,
             trigger_data |-> [condition |-> "no_training", hours |-> hours,
                               check_interval |-> Min(hours \div 4, 6)],
             action_type |-> REMIND,
             action_data |-> [message |-> [fmt |-> "Llevas mas de {amount}{unit} sin entrenar",
                                          amount |-> amount, unit |-> unit]],
             context_needed |-> <<"last_workout", "next_session", "current_cycle">>]
      [] matched_pattern(text) = "deload_warning" ->
        LET days == Val(text.deload).value
        IN  [raw_text |-> text,
             trigger_type |-> EVENT_BASED,
             trigger_data |-> [event |-> "deload", days_before |-> days],
             action_type |-> REMIND,
             action_data |-> [message |-> [fmt |-> "Deload en {days} dias", days |-> days]],
             context_needed |-> <<"cycle_position", "deload_date">>]
      [] matched_pattern(text) = "next_session" ->
        [raw_text |-> text,
         trigger_type |-> TIME_BASED,
         trigger_data |-> [when |-> "now"],
         action_type |-> ASK,
         action_data |-> [query |-> "next_session"],
         context_needed |-> <<"next_session", "current_cycle", "last_workout">>]
      [] OTHER ->
        [raw_text |-> text,
         trigger_type |-> TIME_BASED,
         trigger_data |-> [when |-> "unspecified"],
         action_type |-> NOTIFY,
         action_data |-> [message |-> text],
         context_needed |-> <<>>]

\* A call of parse: the exception it raises ("" for none) and the value it returns.
parse_call(text) ==
    IF parse_raises(text) THEN [raised |-> "ValueError", value |-> None]
    ELSE [raised |-> "", value |-> Some(parse(text))]

(***************************************************************************)
(* scheduler.py: JobStatus, ReminderJob.to_dict / from_dict.               *)
(***************************************************************************)
JobStatus == {"ACTIVE", "PAUSED", "TRIGGERED", "COMPLETED"}
JobStatusValue == [s \in JobStatus |->
    CASE s = "ACTIVE" -> "activo" [] s = "PAUSED" -> "pausado"
      [] s = "TRIGGERED" -> "disparado" [] s = "COMPLETED" -> "completado"]

\* JobStatus(value), TriggerType[name], ActionType[name]
JobStatusOf(value) == CHOOSE s \in JobStatus : JobStatusValue[s] = value
TriggerTypeOf(name) == CHOOSE t \in TriggerType : TriggerTypeName[t] = name
ActionTypeOf(name) == CHOOSE a \in ActionType : ActionTypeName[a] = name

ReminderJob(id, user_id, intent, status, created_at) ==
    [id |-> id, user_id |-> user_id, intent |-> intent, status |-> status,
     created_at |-> created_at, notion_page_id |-> None,
     last_checked |-> None, trigger_count |-> 0]

\* Mutant: the dict leaves out notion_page_id.
to_dict_NoPageId(job) ==
    [id |-> job.id,
     user_id |-> job.user_id,
     intent |-> [raw_text |-> job.intent.raw_text,
                 trigger_type |-> TriggerTypeName[job.intent.trigger_type],
                 trigger_data |-> job.intent.trigger_data,
                 action_type |-> ActionTypeName[job.intent.action_type],
                 action_data |-> job.intent.action_data,
                 context_needed |-> job.intent.context_needed],
     status |-> JobStatusValue[job.status],
     created_at |-> job.created_at,
     last_checked |-> job.last_checked,
     trigger_count |-> job.trigger_count]

to_dict(job) ==
    [id |-> job.id,
     user_id |-> job.user_id,
     intent |-> [raw_text |-> job.intent.raw_text,
                 trigger_type |-> TriggerTypeName[job.intent.trigger_type],
                 trigger_data |-> job.intent.trigger_data,
                 action_type |-> ActionTypeName[job.intent.action_type],
                 action_data |-> job.intent.action_data,
                 context_needed |-> job.intent.context_needed],
     status |-> JobStatusValue[job.status],
     created_at |-> job.created_at,
     notion_page_id |-> job.notion_page_id,
     last_checked |-> job.last_checked,
     trigger_count |-> job.trigger_count]

from_dict(data) ==
    LET intent_data == data.intent
        intent == [raw_text |-> intent_data.raw_text,
                   trigger_type |-> TriggerTypeOf(intent_data.trigger_type),
                   trigger_data |-> intent_data.trigger_data,
                   action_type |-> ActionTypeOf(intent_data.action_type),
                   action_data |-> intent_data.action_data,
                   context_needed |-> intent_data.context_needed]
    IN  [id |-> data.id,
         user_id |-> data.user_id,
         intent |-> intent,
         status |-> JobStatusOf(data.status),
         created_at |-> data.created_at,
         notion_page_id |-> DictGet(data, "notion_page_id", None),
         last_checked |-> DictGet(data, "last_checked", None),
         trigger_count |-> DictGet(data, "trigger_count", 0)]

(***************************************************************************)
(* scheduler.py: JobStore.  file is the content of jobs.json, a mapping    *)
(* from job id to the serialized job; a missing file is the empty mapping. *)
(* Every value a job holds is a string, an integer, None, a list or a      *)
(* string-keyed dict, which json.dump and json.load carry unchanged.       *)
(***************************************************************************)
EmptyFile == [k \in {} |-> k]

\* Mutant: the rewritten file holds the saved job only.
JobStore_save_OnlyThis(jobs, job) ==
    [k \in {job.id} |-> to_dict(job)]

\* Mutant: a record that is already there is kept as it is.
JobStore_save_KeepFirst(jobs, job) ==
    [k \in DOMAIN jobs \cup {job.id} |-> IF k \in DOMAIN jobs THEN jobs[k] ELSE to_dict(job)]

JobStore_save(jobs, job) ==
    [k \in DOMAIN jobs \cup {job.id} |-> IF k = job.id THEN to_dict(job) ELSE jobs[k]]

\* The order of the keys of the dict after "jobs[job.id] = ...": a key that
\* is new goes last, a key that was there keeps its place.
key_order(keys, job_id) ==
    IF \E i \in 1..Len(keys) : keys[i] = job_id THEN keys ELSE Append(keys, job_id)

JobStore_get(jobs, job_id) ==
    IF job_id \notin DOMAIN jobs THEN None ELSE Some(from_dict(jobs[job_id]))

\* Mutant: every record is listed, whatever its status.
JobStore_get_all_active_NoFilter(jobs, keys) ==
    [i \in 1..Len(keys) |-> from_dict(jobs[keys[i]])]

\* The active jobs in the order of the file's keys.
JobStore_get_all_active(jobs, keys) ==
    LET active == SelectSeq(keys, LAMBDA k : jobs[k].status = JobStatusValue["ACTIVE"])
    IN  [i \in 1..Len(active) |-> from_dict(jobs[active[i]])]

JobStore_update_status(jobs, job_id, status) ==
    IF job_id \in DOMAIN jobs
    THEN [jobs EXCEPT ![job_id] = [@ EXCEPT !.status = JobStatusValue[status]]]
    ELSE jobs

(***************************************************************************)
(* parser.py: ReminderIntent.to_cron_job.                                  *)
(***************************************************************************)
\* Mutant: an EVENT_BASED intent falls through to the simple descriptor.
to_cron_job_EventAsSimple(intent) ==
    IF intent.trigger_type = CONDITIONAL THEN
        [type |-> "conditional",
         check_every_hours |-> DictGet(intent.trigger_data, "check_interval", 6),
         condition |-> intent.trigger_data.condition,
         threshold_hours |-> intent.trigger_data.hours,
         action |-> "notify_with_context",
         context |-> intent.context_needed]
    ELSE
        [type |-> "simple",
         action |-> "notify",
         message |-> DictGet(intent.action_data, "message", [fmt |-> ""])]

to_cron_job(intent) ==
    IF intent.trigger_type = CONDITIONAL THEN
        [type |-> "conditional",
         check_every_hours |-> DictGet(intent.trigger_data, "check_interval", 6),
         condition |-> intent.trigger_data.condition,
         threshold_hours |-> intent.trigger_data.hours,
         action |-> "notify_with_context",
         context |-> intent.context_needed]
    ELSE IF intent.trigger_type = EVENT_BASED THEN
        [type |-> "event_based",
         event |-> intent.trigger_data.event,
         days_before |-> DictGet(intent.trigger_data, "days_before", 3),
         action |-> "notify_with_context",
         context |-> intent.context_needed]
    ELSE
        [type |-> "simple",
         action |-> "notify",
         message |-> DictGet(intent.action_data, "message", [fmt |-> ""])]

(***************************************************************************)
(* scheduler.py: NotionJobStore.save with notion.py: create_reminder.      *)
(* pages is the remote reminders database, one record per page.            *)
(***************************************************************************)
\* str.lower() of the trigger type names
Lower(name) ==
    CASE name = "TIME_BASED" -> "time_based" [] name = "CONDITIONAL" -> "conditional"
      [] name = "RECURRING" -> "recurring" [] name = "EVENT_BASED" -> "event_based"

create_reminder(db, nombre, tipo, condicion, user_id) ==
    LET notion_id == <<"page", Len(db) + 1>>
    IN  [id |-> notion_id,
         db |-> Append(db, [id |-> notion_id, nombre |-> nombre, tipo |-> tipo,
                            estado |-> "activo", condicion |-> condicion,
                            ultimo_check |-> None, contador |-> 0, user_id |-> user_id])]

\* The job with its notion_page_id set, and the database with the new page.
NotionJobStore_save(db, job) ==
    LET r == create_reminder(db, First50(job.intent.raw_text),
                             Lower(TriggerTypeName[job.intent.trigger_type]),
                             to_cron_job(job.intent), job.user_id)
    IN  [job |-> [job EXCEPT !.notion_page_id = Some(r.id)], db |-> r.db]

(***************************************************************************)
(* scheduler.py: NotionJobStore.get_all_active with notion.py:             *)
(* query_reminders.  The text of "Condicion" is json.dumps of the          *)
(* descriptor and json.loads gives the descriptor back.                    *)
(***************************************************************************)
\* datetime.isoformat(): a timestamp as a string; the empty string is << >>.
isoformat(t) == <<t>>

\* The pages whose Estado is the one asked for, in the order of the database.
query_reminders(db, estado) == SelectSeq(db, LAMBDA e : e.estado = estado)

_str_to_trigger(tipo) ==
    CASE tipo = "condicional" -> CONDITIONAL
      [] tipo = "temporal" -> TIME_BASED
      [] tipo = "recurrente" -> RECURRING
      [] tipo = "evento" -> EVENT_BASED
      [] OTHER -> TIME_BASED

\* e.id[:8]
First8(page_id) == <<"page[:8]", page_id[2]>>

NotionJobStore_get_all_active(db) ==
    LET entries == query_reminders(db, "activo")
        job_of(e) ==
            [id |-> First8(e.id),
             user_id |-> e.user_id,
             intent |-> [raw_text |-> e.nombre,
                         trigger_type |-> _str_to_trigger(e.tipo),
                         trigger_data |-> e.condicion,
                         action_type |-> parse(e.nombre).action_type,
                         action_data |-> EmptyFile,
                         context_needed |-> << >>],
             status |-> JobStatusOf(e.estado),
             created_at |-> IF e.ultimo_check # None THEN isoformat(Val(e.ultimo_check)) ELSE << >>,
             notion_page_id |-> Some(e.id),
             last_checked |-> e.ultimo_check,
             trigger_count |-> e.contador]
    IN  [i \in 1..Len(entries) |-> job_of(entries[i])]

(***************************************************************************)
(* scheduler.py: Scheduler.create_job and Scheduler.check_job.             *)
(***************************************************************************)
\* Mutant: the remote save comes first and its failure ends the call.
create_job_RemoteFirst(jobs, db, uuid, t, has_notion, local_ok, remote_ok, user_id, intent) ==
    LET job == ReminderJob(uuid, user_id, intent, "ACTIVE", isoformat(t))
        saved == JobStore_save(jobs, job)
    IN  IF ~ local_ok
        THEN [raised |-> "OSError", returned |-> None, job |-> job, jobs |-> jobs, db |-> db]
        ELSE IF has_notion /\ remote_ok
        THEN LET r == NotionJobStore_save(db, job)
             IN  [raised |-> "", returned |-> Some(r.job), job |-> r.job, jobs |-> saved, db |-> r.db]
        ELSE IF has_notion
        THEN [raised |-> "", returned |-> Some(job), job |-> job, jobs |-> jobs, db |-> db]
        ELSE [raised |-> "", returned |-> Some(job), job |-> job, jobs |-> saved, db |-> db]

\* Mutant: the remote save is attempted before the local one.
create_job_RemoteBeforeLocal(jobs, db, uuid, t, has_notion, local_ok, remote_ok, user_id, intent) ==
    LET job == ReminderJob(uuid, user_id, intent, "ACTIVE", isoformat(t))
        r == IF has_notion /\ remote_ok THEN NotionJobStore_save(db, job)
             ELSE [job |-> job, db |-> db]
    IN  IF ~ local_ok
        THEN [raised |-> "OSError", returned |-> None, job |-> r.job, jobs |-> jobs, db |-> r.db]
        ELSE [raised |-> "", returned |-> Some(r.job), job |-> r.job,
              jobs |-> JobStore_save(jobs, r.job), db |-> r.db]

\* uuid is the fresh identifier str(uuid.uuid4())[:8], t is datetime.now(),
\* has_notion is whether self.notion is set, local_ok whether
\* JobStore.save returns (reading or opening jobs.json can fail, which leaves
\* the file as it was, and nothing in create_job catches that), remote_ok whether NotionJobStore.save returns
\* (it raises without a database id or when the request fails).  The
\* outcome: the exception that leaves create_job ("" for none), the value
\* returned, the job object, the job file and the remote database.
create_job(jobs, db, uuid, t, has_notion, local_ok, remote_ok, user_id, intent) ==
    LET job == ReminderJob(uuid, user_id, intent, "ACTIVE", isoformat(t))
        saved == JobStore_save(jobs, job)
    IN  IF ~ local_ok
        THEN [raised |-> "OSError", returned |-> None, job |-> job, jobs |-> jobs, db |-> db]
        ELSE IF has_notion /\ remote_ok
        THEN LET r == NotionJobStore_save(db, job)
             IN  [raised |-> "", returned |-> Some(r.job), job |-> r.job, jobs |-> saved, db |-> r.db]
        ELSE [raised |-> "", returned |-> Some(job), job |-> job, jobs |-> saved, db |-> db]

\* What the no-training branch learns about the last workout: FORZUDO_WORKOUTS_DB
\* is not set ("no_db"), get_last_workout raises ("raises"), it finds no
\* workout ("empty"), or it returns an entry.
\* Mutant: a failed lookup leaves a workout of 48.1 hours ago behind.
last_workout_of_StaleOnError(workout) ==
    IF workout.kind = "entry" THEN Some(workout.entry)
    ELSE IF workout.kind = "raises" THEN Some([hours_ago |-> 481, peso_top |-> 0])
    ELSE None

last_workout_of(workout) ==
    IF workout.kind = "entry" THEN Some(workout.entry) ELSE None

_build_message(intent, ctx) == format_context_message(ctx)

\* threshold = intent.trigger_data.get("hours", 48)
threshold_of(intent) == DictGet(intent.trigger_data, "hours", 48)

\* Mutant: >= instead of >.
exceeds_OrEqual(hours_since_last, threshold) == hours_since_last >= Hours(threshold)

\* ctx.hours_since_last > threshold, the elapsed time in tenths of an hour
exceeds(hours_since_last, threshold) == hours_since_last > Hours(threshold)

\* Mutant: < instead of <=.
deload_due_Strict(days_until, days_before) == days_until < days_before

\* ctx.days_until_deload <= days_before
deload_due(days_until, days_before) == days_until <= days_before

\* Mutant: trigger_count = 1 instead of += 1.
count_trigger_Assign(job) == [job EXCEPT !.trigger_count = 1]

\* job.trigger_count += 1
count_trigger(job) == [job EXCEPT !.trigger_count = @ + 1]

\* Mutant: the job is saved before returning None.
no_decision_Saves(job, jobs) ==
    [job |-> job, jobs |-> JobStore_save(jobs, job), result |-> None,
     hours |-> None, week |-> None]

\* "if ctx.hours_since_last is None: return None"
no_decision(job, jobs) ==
    [job |-> job, jobs |-> jobs, result |-> None, hours |-> None, week |-> None]

\* Mutant: returns None without saving.
save_and_return_none_NoSave(job, jobs) ==
    [job |-> job, jobs |-> jobs, result |-> None, hours |-> None, week |-> None]

\* The last two statements: "self.local.save(job)" and "return None"
save_and_return_none(job, jobs) ==
    [job |-> job, jobs |-> JobStore_save(jobs, job), result |-> None,
     hours |-> None, week |-> None]

\* The set of outcomes of check_job(job) at time t, one per context that
\* build_context can return: the job as check_job leaves it, the job file,
\* the returned value (its "context" entry left out), and the two facts of
\* the context the decision read: hours_since_last and week_in_macro.
check_job(job0, jobs, t, workout, days_since_start) ==
    LET job == [job0 EXCEPT !.last_checked = Some(t)]
        intent == job.intent
    IN  IF TriggerTypeName[intent.trigger_type] = "CONDITIONAL" THEN
            IF "condition" \in DOMAIN intent.trigger_data
               /\ intent.trigger_data.condition = "no_training"
            THEN
              LET threshold == threshold_of(intent)
                  last_workout == last_workout_of(workout)
              IN  { IF ctx.hours_since_last = None THEN
                        no_decision(job, jobs)
                    ELSE IF exceeds(Val(ctx.hours_since_last), threshold) THEN
                        LET job2 == count_trigger(job)
                        IN  [job |-> job2,
                             jobs |-> JobStore_save(jobs, job2),
                             result |-> Some([triggered |-> TRUE,
                                              reason |-> [fmt |-> "No training for {h}h",
                                                          value |-> Val(ctx.hours_since_last)],
                                              message |-> _build_message(intent, ctx)]),
                             hours |-> ctx.hours_since_last, week |-> None]
                    ELSE [save_and_return_none(job, jobs) EXCEPT !.hours = ctx.hours_since_last] :
                    ctx \in build_context(last_workout, days_since_start) }
            ELSE {save_and_return_none(job, jobs)}
        ELSE IF TriggerTypeName[intent.trigger_type] = "EVENT_BASED" THEN
            IF "event" \in DOMAIN intent.trigger_data
               /\ intent.trigger_data.event = "deload"
            THEN
              LET days_before == DictGet(intent.trigger_data, "days_before", 3)
              IN  { IF deload_due(days_until_deload(ctx), days_before) THEN
                        [job |-> job, jobs |-> jobs,
                         result |-> Some([triggered |-> TRUE,
                                          reason |-> [fmt |-> "Deload in {d} days",
                                                      value |-> days_until_deload(ctx)],
                                          message |-> _build_message(intent, ctx)]),
                         hours |-> None, week |-> Some(ctx.cycle_state.week_in_macro)]
                    ELSE [save_and_return_none(job, jobs)
                            EXCEPT !.week = Some(ctx.cycle_state.week_in_macro)] :
                    ctx \in build_context(None, days_since_start) }
            ELSE {save_and_return_none(job, jobs)}
        ELSE {save_and_return_none(job, jobs)}

(***************************************************************************)
(* scheduler.py: Scheduler.run_checks.                                     *)
(***************************************************************************)
\* Mutant: the remote listing is used even when it is empty.
jobs_to_check_RemoteOnly(has_notion, remote, local) ==
    IF has_notion THEN remote ELSE local

\* "if not jobs: jobs = self.local.get_all_active()"
jobs_to_check(has_notion, remote, local) ==
    IF remote # << >> THEN remote ELSE local

\* The jobs run_checks evaluates: listing_ok is whether
\* NotionJobStore.get_all_active returns (a failure leaves the list empty).
run_checks_jobs(jobs, keys, db, has_notion, listing_ok) ==
    jobs_to_check(has_notion,
                  IF has_notion /\ listing_ok THEN NotionJobStore_get_all_active(db) ELSE << >>,
                  JobStore_get_all_active(jobs, keys))

\* The loop "for job in jobs" from position i on: workouts[i] is what the
\* check of the i-th job learns about the last workout.  The set of outcomes:
\* the job file with the order of its keys, the list of triggered results,
\* and the ids of the jobs check_job was called on, in the order of the calls.
RECURSIVE run_checks_loop(_, _, _, _, _, _, _, _, _)
run_checks_loop(todo, i, jobs, keys, t, workouts, days_since_start, checked, triggered) ==
    IF i > Len(todo)
    THEN {[jobs |-> jobs, keys |-> keys, checked |-> checked, triggered |-> triggered]}
    ELSE UNION { run_checks_loop(todo, i + 1, o.jobs,
                                 IF o.jobs = jobs THEN keys ELSE key_order(keys, o.job.id),
                                 t, workouts, days_since_start,
                                 Append(checked, todo[i].id),
                                 IF o.result # None /\ Val(o.result).triggered
                                 THEN Append(triggered,
                                             [job_id |-> o.job.id, user_id |-> o.job.user_id,
                                              triggered |-> TRUE,
                                              reason |-> Val(o.result).reason,
                                              message |-> Val(o.result).message])
                                 ELSE triggered) :
                 o \in check_job(todo[i], jobs, t, workouts[i], days_since_start) }

run_checks(jobs, keys, db, has_notion, listing_ok, t, workouts, days_since_start) ==
    run_checks_loop(run_checks_jobs(jobs, keys, db, has_notion, listing_ok), 1,
                    jobs, keys, t, workouts, days_since_start, << >>, << >>)

(***************************************************************************)
(* The scheduler as one process uses it.  held is the ReminderJob object   *)
(* the caller holds (returned by create_job or by JobStore.get), now the   *)
(* clock that stamps created_at and last_checked, ev the last call: its    *)
(* name, the facts of the context it read and the value it returned; for   *)
(* check_job also the status the file had for the job when the call began, *)
(* for create_job how the remote save went, for run_checks how the remote  *)
(* listing went, the jobs it evaluated and the list it returned.           *)
(***************************************************************************)
TextNoTraining48h == Text("avisame si no he entrenado en 48h", Some([number |-> Digits(2, 48), unit |-> "h"]), None, FALSE)
TextNoTraining1d == Text("si no entreno en 1d", Some([number |-> Digits(1, 1), unit |-> "d"]), None, FALSE)
TextDeload3 == Text("avisame del deload 3 dias antes", None, Some(Digits(1, 3)), FALSE)
TextToca == Text("que toca hoy", None, None, TRUE)
TextHola == Text("hola", None, None, FALSE)
TextLunes == Text("todos los lunes", None, None, FALSE)

\* An intent built directly by a caller of create_job (parse never returns RECURRING).
RecurringIntent ==
    [raw_text |-> TextLunes,
     trigger_type |-> RECURRING,
     trigger_data |-> [day |-> "lunes"],
     action_type |-> NOTIFY,
     action_data |-> [message |-> TextLunes],
     context_needed |-> <<>>]

\* The calls of create_job the model makes.
Requests ==
    { [user_id |-> "juan", intent |-> parse(TextNoTraining48h)],
      [user_id |-> "ana", intent |-> parse(TextNoTraining1d)],
      [user_id |-> "juan", intent |-> parse(TextDeload3)],
      [user_id |-> "ana", intent |-> parse(TextToca)],
      [user_id |-> "juan", intent |-> parse(TextHola)],
      [user_id |-> "juan", intent |-> RecurringIntent] }

WorkoutEntries ==
    { [hours_ago |-> 240, peso_top |-> 0],
      [hours_ago |-> 300, peso_top |-> 60],
      [hours_ago |-> 480, peso_top |-> 100],
      [hours_ago |-> 481, peso_top |-> 0] }

WorkoutOutcomes ==
    { [kind |-> "no_db"], [kind |-> "raises"], [kind |-> "empty"] }
    \cup { [kind |-> "entry", entry |-> e] : e \in WorkoutEntries }

\* Elapsed days since PROGRAM_START at the time of a check: weeks 1, 3, 4
\* and 7 of the first macro-cycle and week 1 of the second.
DaysSinceStart == {0, 14, 21, 42, 49}

\* An id no job has: get and update_status are also called with unknown ids.
MissingId == <<"job", 0>>

Event(op) == [op |-> op, hours |-> None, week |-> None, result |-> None]

NoParse == [op |-> "none"]
NoContext == [op |-> "none"]
NoProcs == << >>

InitSched ==
    /\ file = EmptyFile
    /\ file_keys = << >>
    /\ pages = << >>
    /\ notion \in BOOLEAN
    /\ held = None
    /\ allocated = 0
    /\ now = 0
    /\ ev = Event("init")

\* Every call happens at a later instant than the one before; the model
\* follows MaxTime calls.
Clock ==
    /\ now < MaxTime
    /\ now' = now + 1

CreateJob ==
    /\ Clock
    /\ \E req \in Requests, local_ok \in BOOLEAN,
          remote_ok \in (IF notion THEN BOOLEAN ELSE {FALSE}) :
         LET r == create_job(file, pages, <<"job", allocated + 1>>, now, notion, local_ok,
                             remote_ok, req.user_id, req.intent)
         IN  /\ file' = r.jobs
             /\ file_keys' = IF r.jobs = file THEN file_keys ELSE key_order(file_keys, r.job.id)
             /\ pages' = r.db
             /\ held' = IF r.returned # None THEN r.returned ELSE held
             /\ ev' = [op |-> "create_job", hours |-> None, week |-> None, result |-> None,
                       raised |-> r.raised, returned |-> r.returned,
                       remote |-> IF r.raised # "" THEN "not_tried"
                                  ELSE IF ~ notion THEN "none"
                                  ELSE IF remote_ok THEN "saved" ELSE "raises"]
    /\ allocated' = allocated + 1
    /\ UNCHANGED notion

\* The last workout is looked up in the no-training branch only.
WorkoutsRead(job) ==
    IF job.intent.trigger_type = CONDITIONAL THEN WorkoutOutcomes ELSE {[kind |-> "no_db"]}

\* build_context, which reads the clock against the program start, is called
\* for CONDITIONAL and EVENT_BASED jobs only.
DaysRead(jobs) ==
    IF \E job \in jobs : job.intent.trigger_type \in {CONDITIONAL, EVENT_BASED}
    THEN DaysSinceStart ELSE {0}

CheckJob ==
    /\ Clock
    /\ held # None
    /\ \E workout \in WorkoutsRead(Val(held)), days \in DaysRead({Val(held)}) :
         \E o \in check_job(Val(held), file, now, workout, days) :
           /\ held' = Some(o.job)
           /\ file' = o.jobs
           /\ file_keys' = IF o.jobs = file THEN file_keys ELSE key_order(file_keys, o.job.id)
           /\ ev' = [op |-> "check_job", hours |-> o.hours, week |-> o.week, result |-> o.result,
                     stored |-> IF Val(held).id \in DOMAIN file
                                THEN Some(file[Val(held).id].status) ELSE None,
                     workout |-> workout.kind]
    /\ UNCHANGED <<pages, notion, allocated>>

\* JobStore.get by a caller that holds no job object yet.
GetJob ==
    /\ Clock
    /\ \E job_id \in DOMAIN file \cup {MissingId} : held' = JobStore_get(file, job_id)
    /\ ev' = Event("get")
    /\ UNCHANGED <<file, file_keys, pages, notion, allocated>>

\* JobStore.update_status, called by an operator; a job object the caller
\* obtained before stays as it is.
UpdateStatus ==
    /\ Clock
    /\ \E job_id \in DOMAIN file \cup {MissingId}, status \in JobStatus :
         file' = JobStore_update_status(file, job_id, status)
    /\ ev' = Event("update_status")
    /\ UNCHANGED <<file_keys, pages, notion, held, allocated>>

\* What each check of one run learns about the last workout: the workouts
\* database is in one condition during the run, and each lookup of a
\* CONDITIONAL job either shows it or raises.
WorkoutChoices(todo) ==
    LET reads == { i \in 1..Len(todo) : todo[i].intent.trigger_type = CONDITIONAL }
    IN  { [i \in 1..Len(todo) |->
             IF i \notin reads THEN [kind |-> "no_db"]
             ELSE IF i \in failed THEN [kind |-> "raises"]
             ELSE base] :
          base \in (IF reads = {} THEN {[kind |-> "no_db"]} ELSE WorkoutOutcomes),
          failed \in SUBSET reads }

\* The trigger_count the job file holds for job_id, 0 without a record.
StoredCount(jobs, job_id) ==
    IF job_id \in DOMAIN jobs THEN jobs[job_id].trigger_count ELSE 0

\* run_checks; the days since the program start are the same for every check
\* of one run.  ev keeps how the remote listing went, the jobs listed, what
\* each lookup of the last workout gave, the trigger_count the file held for
\* each listed job when the run began, the ids evaluated and the list
\* returned.
RunChecks ==
    /\ Clock
    /\ \E listing_ok \in (IF notion THEN BOOLEAN ELSE {FALSE}) :
         LET todo == run_checks_jobs(file, file_keys, pages, notion, listing_ok)
         IN  \E workouts \in WorkoutChoices(todo), days \in DaysRead({ todo[i] : i \in 1..Len(todo) }) :
               \E o \in run_checks(file, file_keys, pages, notion, listing_ok, now, workouts, days) :
                 /\ file' = o.jobs
                 /\ file_keys' = o.keys
                 /\ ev' = [op |-> "run_checks", hours |-> None, week |-> None, result |-> None,
                           listing |-> IF ~ notion THEN "none"
                                       ELSE IF listing_ok THEN "ok" ELSE "raises",
                           jobs |-> todo, workouts |-> workouts,
                           before |-> [i \in 1..Len(todo) |-> StoredCount(file, todo[i].id)],
                           checked |-> o.checked, triggered |-> o.triggered]
    /\ UNCHANGED <<pages, notion, held, allocated>>

\* Options of the Tipo and Estado selects of the reminders database that a
\* user of the database picks for a page.
TipoOptions == {"condicional", "evento"}
EstadoOptions == {"pausado"}

\* A user of the remote database sets the Tipo or the Estado of a page to one
\* of these options.
EditPage ==
    /\ Clock
    /\ \E i \in 1..Len(pages) :
         \/ \E tipo \in TipoOptions : pages' = [pages EXCEPT ![i].tipo = tipo]
         \/ \E estado \in EstadoOptions : pages' = [pages EXCEPT ![i].estado = estado]
    /\ ev' = Event("edit_page")
    /\ UNCHANGED <<file, file_keys, notion, held, allocated>>

Next ==
    /\ CreateJob \/ CheckJob \/ GetJob \/ UpdateStatus \/ RunChecks \/ EditPage
    /\ UNCHANGED <<cycleVars, parseVars, procVars, ctxVars>>

(***************************************************************************)
(* The scheduler with a remote backend, between whose calls a user of the  *)
(* reminders database sets the Tipo of a page create_job made to one of    *)
(* the options the database offers.  The edit is no call of the program   *)
(* and does not move its clock.                                            *)
(***************************************************************************)
EditTipo ==
    /\ \E i \in 1..Len(pages), tipo \in TipoOptions :
         /\ pages[i].tipo \notin TipoOptions
         /\ pages' = [pages EXCEPT ![i].tipo = tipo]
    /\ ev' = Event("edit_page")
    /\ UNCHANGED <<file, file_keys, notion, held, allocated, now>>

NextRemote ==
    /\ CreateJob \/ RunChecks \/ EditTipo
    /\ UNCHANGED <<cycleVars, parseVars, procVars, ctxVars>>

Init ==
    /\ total_sessions = 0
    /\ cycle_state = get_cycle_state(0)
    /\ expected = [lift |-> "", week |-> 0, tm_bumps |-> 0, weights |-> None]
    /\ InitSched
    /\ parsed = NoParse
    /\ procs = NoProcs
    /\ context = NoContext

Spec == Init /\ [][Next]_vars

InitRemote == Init /\ notion

SpecRemote == InitRemote /\ [][NextRemote]_vars

(***************************************************************************)
(* The cycle engine explored on its own: sessions accumulate one by one,   *)
(* and expected weights are asked for any lift, week and bump count.       *)
(***************************************************************************)
LiftInputs == Lifts \cup {"curl"}
WeekInputs == 0..4

NoCall == [lift |-> "", week |-> 0, tm_bumps |-> 0, weights |-> None]

InitCycle ==
    /\ total_sessions = 0
    /\ cycle_state = get_cycle_state(0)
    /\ expected = NoCall
    /\ file = EmptyFile
    /\ file_keys = << >>
    /\ pages = << >>
    /\ notion = FALSE
    /\ held = None
    /\ allocated = 0
    /\ now = 0
    /\ ev = Event("init")
    /\ parsed = NoParse
    /\ procs = NoProcs
    /\ context = NoContext

Train ==
    /\ total_sessions < MaxSessions
    /\ total_sessions' = total_sessions + 1
    /\ cycle_state' = get_cycle_state(total_sessions + 1)
    /\ UNCHANGED expected
    /\ UNCHANGED <<schedVars, parseVars, procVars, ctxVars>>

ExpectedWeights ==
    \E lift \in LiftInputs, week \in WeekInputs, b \in 0..MaxBumps :
      \E w \in get_expected_weights(lift, week, b) :
        /\ expected' = [lift |-> lift, week |-> week, tm_bumps |-> b, weights |-> w]
        /\ UNCHANGED <<total_sessions, cycle_state>>
        /\ UNCHANGED <<schedVars, parseVars, procVars, ctxVars>>

NextCycle == Train \/ ExpectedWeights

SpecCycle == InitCycle /\ [][NextCycle]_vars

(***************************************************************************)
(* build_context explored on its own: it is called with or without a last  *)
(* workout, at any number of elapsed days since PROGRAM_START.              *)
(***************************************************************************)
LastWorkouts == {None} \cup { Some(e) : e \in WorkoutEntries }

InitContext == InitCycle

BuildContext ==
    /\ \E days \in 0..MaxDays, last_workout \in LastWorkouts :
         \E ctx \in build_context(last_workout, days) :
           context' = [op |-> "build_context", days |-> days, ctx |-> ctx]
    /\ UNCHANGED <<cycleVars, schedVars, parseVars, procVars>>

NextContext == BuildContext

SpecContext == InitContext /\ [][NextContext]_vars

(***************************************************************************)
(* The parser explored on its own: parse is called on texts of every       *)
(* combination of matches, to_cron_job on the intents parse returns and on *)
(* the caller-built recurring intent.                                      *)
(***************************************************************************)
\* Digit groups: one digit, two digits, the longest string int() accepts and
\* the shortest it rejects (zeros in front of the number).
Numbers == {Digits(1, 0), Digits(1, 2), Digits(1, 3), Digits(2, 24), Digits(2, 48),
            Digits(INT_MAX_STR_DIGITS, 7), Digits(INT_MAX_STR_DIGITS + 1, 0)}
DayCounts == {Digits(1, 1), Digits(1, 3), Digits(1, 7), Digits(INT_MAX_STR_DIGITS + 1, 0)}
Units == {"", "h", "d"}

ParseTexts ==
    { Text("texto", nt, dl, ns) :
        nt \in {None} \cup { Some([number |-> n, unit |-> u]) : n \in Numbers, u \in Units },
        dl \in {None} \cup { Some(d) : d \in DayCounts },
        ns \in BOOLEAN }

CronInputs == { parse(t) : t \in { x \in ParseTexts : ~ parse_raises(x) } } \cup {RecurringIntent}

InitParse ==
    /\ InitCycle

ParseText ==
    /\ \E text \in ParseTexts :
         parsed' = [op |-> "parse", text |-> text,
                    raised |-> parse_call(text).raised, value |-> parse_call(text).value]
    /\ UNCHANGED <<cycleVars, schedVars, procVars, ctxVars>>

ToCronJob ==
    /\ \E intent \in CronInputs :
         parsed' = [op |-> "to_cron_job", intent |-> intent, cron |-> to_cron_job(intent)]
    /\ UNCHANGED <<cycleVars, schedVars, procVars, ctxVars>>

NextParse == ParseText \/ ToCronJob

SpecParse == InitParse /\ [][NextParse]_vars

(***************************************************************************)
(* Two invocations of the process working on the same jobs.json.  Each     *)
(* runs one JobStore.save or JobStore.update_status, which is _load_all,   *)
(* the change of the loaded dict, and _save_all; nothing locks the file    *)
(* between the two steps.  procs.proc[p] is the operation of invocation p, *)
(* how far it is and the dict it loaded; procs.interleaved tells whether   *)
(* an invocation loaded the file between the load and the write of the     *)
(* other.                                                                  *)
(***************************************************************************)
Procs == {1, 2}

\* The jobs the file holds at the start, and two jobs still to be saved.
StoredJob(n) == ReminderJob(<<"job", n>>, "juan", parse(TextHola), "ACTIVE", isoformat(0))
StoredIds == {1, 2}
FreshIds == {3, 4}

\* save of a new job, save of a stored job after a trigger was counted,
\* update_status of a stored job.
ProcOps ==
    { [name |-> "save", job |-> StoredJob(n)] : n \in FreshIds }
    \cup { [name |-> "save", job |-> count_trigger(StoredJob(n))] : n \in StoredIds }
    \cup { [name |-> "update_status", job_id |-> <<"job", n>>, status |-> "PAUSED"] : n \in StoredIds }

\* The job id an operation writes.
TargetId(op) == IF op.name = "save" THEN op.job.id ELSE op.job_id

InitProcs ==
    /\ total_sessions = 0
    /\ cycle_state = get_cycle_state(0)
    /\ expected = NoCall
    /\ file = [k \in { <<"job", n>> : n \in StoredIds } |-> to_dict(StoredJob(k[2]))]
    /\ file_keys = << <<"job", 1>>, <<"job", 2>> >>
    /\ pages = << >>
    /\ notion = FALSE
    /\ held = None
    /\ allocated = 2
    /\ now = 0
    /\ ev = Event("init")
    /\ parsed = NoParse
    /\ context = NoContext
    /\ procs \in { [proc |-> [p \in Procs |-> [op |-> ops[p], pc |-> "start",
                                               jobs |-> EmptyFile, keys |-> << >>]],
                    interleaved |-> FALSE] : ops \in [Procs -> ProcOps] }

\* jobs = self._load_all()
LoadAll ==
    \E p \in Procs :
      /\ procs.proc[p].pc = "start"
      /\ procs' = [proc |-> [procs.proc EXCEPT ![p] = [@ EXCEPT !.pc = "loaded",
                                                                !.jobs = file,
                                                                !.keys = file_keys]],
                    interleaved |-> procs.interleaved
                                    \/ \E q \in Procs \ {p} : procs.proc[q].pc = "loaded"]
      /\ UNCHANGED <<cycleVars, schedVars, parseVars, ctxVars>>

\* the change of the loaded dict and self._save_all(jobs)
SaveAll ==
    \E p \in Procs :
      LET me == procs.proc[p] IN
      /\ me.pc = "loaded"
      /\ file' = IF me.op.name = "save" THEN JobStore_save(me.jobs, me.op.job)
                 ELSE JobStore_update_status(me.jobs, me.op.job_id, me.op.status)
      /\ file_keys' = IF me.op.name = "save" THEN key_order(me.keys, me.op.job.id) ELSE me.keys
      /\ procs' = [procs EXCEPT !.proc[p].pc = "done"]
      /\ UNCHANGED <<cycleVars, pages, notion, held, allocated, now, ev, parseVars, ctxVars>>

NextProcs == LoadAll \/ SaveAll

SpecProcs == InitProcs /\ [][NextProcs]_vars

(***************************************************************************)
(* Properties of the cycle engine, checked under SpecCycle.                *)
(***************************************************************************)

\* C1: for every total_sessions n >= 0, get_cycle_state(n) has week_in_macro
\* in 1..7 and week_type in 1..4.
C1_WeekRanges ==
    /\ cycle_state.week_in_macro \in 1..7
    /\ cycle_state.week_type \in 1..4

C1_Witness ==
    /\ total_sessions = 27
    /\ cycle_state.week_in_macro = 7
    /\ cycle_state.week_type = 4

\* C2: get_cycle_state(n) equals the reference: completed_weeks = n // 4,
\* macro_num = completed_weeks // 7 + 1, week_in_macro = completed_weeks % 7 + 1,
\* week_type = week_in_macro for weeks 1-3, week_in_macro - 3 for weeks 4-6 and
\* 4 for week 7, tm_bumps_completed = 2 * (macro_num - 1) + (1 if week_in_macro > 3)
\* + (1 if week_in_macro > 6); n = 0 gives week 1, type 1, macro 1 and 0 bumps.
C2_Reference ==
    LET n == total_sessions
        cw == n \div 4
        mn == (cw \div 7) + 1
        wim == (cw % 7) + 1
        wt == CASE wim \in 1..3 -> wim [] wim \in 4..6 -> wim - 3 [] wim = 7 -> 4
        bumps == 2 * (mn - 1) + (IF wim > 3 THEN 1 ELSE 0) + (IF wim > 6 THEN 1 ELSE 0)
    IN  /\ cycle_state.completed_weeks = cw
        /\ cycle_state.macro_num = mn
        /\ cycle_state.week_in_macro = wim
        /\ cycle_state.week_type = wt
        /\ cycle_state.tm_bumps_completed = bumps
        /\ n = 0 => /\ cycle_state.week_in_macro = 1
                    /\ cycle_state.week_type = 1
                    /\ cycle_state.macro_num = 1
                    /\ cycle_state.tm_bumps_completed = 0

C2_Witness ==
    /\ total_sessions = 55
    /\ cycle_state.macro_num = 2
    /\ cycle_state.week_in_macro = 7
    /\ cycle_state.tm_bumps_completed = 4

\* C3: tm_bumps_completed is non-decreasing in total_sessions: for all
\* 0 <= m <= n the bumps at m are at most the bumps at n, also from week 7 of
\* one macro-cycle to week 1 of the next.
C3_BumpsMonotone ==
    \A m \in 0..total_sessions :
        get_cycle_state(m).tm_bumps_completed <= cycle_state.tm_bumps_completed

C3_Witness ==
    /\ total_sessions = 28
    /\ cycle_state.macro_num = 2
    /\ cycle_state.week_in_macro = 1
    /\ cycle_state.tm_bumps_completed = 2
    /\ get_cycle_state(27).tm_bumps_completed = 2

\* C4: for every lift of the training-max table, every week_type in 1..4 and
\* every bump count, each load get_expected_weights returns is a multiple of 2.
C4_LoadsEven ==
    (expected.lift \in Lifts /\ expected.week \in 1..4) =>
        /\ expected.weights # None
        /\ \A i \in 1..Len(Val(expected.weights)) : Val(expected.weights)[i].weight % 2 = 0

\* bench after 7 bumps has a training max of 90, and 70 % of 90 halves to 31.5
C4_Witness ==
    /\ expected.lift = "bench"
    /\ expected.week = 2
    /\ expected.tm_bumps = 7
    /\ expected.weights # None
    /\ Val(expected.weights)[1].weight = 62

(***************************************************************************)
(* Properties of the scheduler, checked under Spec.                        *)
(***************************************************************************)
IsNoTraining(job) ==
    /\ job.intent.trigger_type = CONDITIONAL
    /\ "condition" \in DOMAIN job.intent.trigger_data
    /\ job.intent.trigger_data.condition = "no_training"

IsDeload(job) ==
    /\ job.intent.trigger_type = EVENT_BASED
    /\ "event" \in DOMAIN job.intent.trigger_data
    /\ job.intent.trigger_data.event = "deload"

\* C5: round trip: from_dict(to_dict(j)) equals j in id, user_id, status,
\* created_at, last_checked, trigger_count, remote id and the six intent
\* fields, and so does the job JobStore.get returns after JobStore.save(j).
C5_RoundTrip ==
    held # None =>
        LET j == Val(held) IN
        /\ from_dict(to_dict(j)) = j
        /\ JobStore_get(JobStore_save(file, j), j.id) = Some(j)

\* a job that came back from the file with a remote id, a counter and a check time
C5_Witness ==
    /\ ev.op = "get"
    /\ held # None
    /\ Val(held).notion_page_id # None
    /\ Val(held).trigger_count > 0
    /\ Val(held).last_checked # None

\* C6: the no-training comparison is strict: a no_training job with threshold T
\* triggers when hours_since_last > T and does not when hours_since_last = T
\* (48.0 against 48 does not trigger).
C6_StrictThreshold ==
    (/\ ev.op = "check_job"
     /\ held # None
     /\ IsNoTraining(Val(held))
     /\ "hours" \in DOMAIN Val(held).intent.trigger_data
     /\ ev.hours # None) =>
        LET T == Val(held).intent.trigger_data.hours IN
        /\ (ev.result # None) <=> (Val(ev.hours) > 10 * T)
        /\ (Val(ev.hours) = 10 * T) => ev.result = None

C6_Witness ==
    /\ ev.op = "check_job"
    /\ held # None
    /\ IsNoTraining(Val(held))
    /\ Val(held).intent.trigger_data.hours = 48
    /\ ev.hours = Some(480)
    /\ ev.result = None

\* C7: when check_job evaluates a no_training job and hours_since_last exceeds
\* the threshold, trigger_count grows by exactly 1, the job with the new
\* counter is written to the local store, and a trigger result with a reason
\* and a non-empty message is returned.
C7_Step ==
    (/\ ev'.op = "check_job"
     /\ held # None
     /\ IsNoTraining(Val(held))
     /\ "hours" \in DOMAIN Val(held).intent.trigger_data
     /\ ev'.hours # None
     /\ Val(ev'.hours) > 10 * Val(held).intent.trigger_data.hours)
    => /\ Val(held').trigger_count = Val(held).trigger_count + 1
       /\ Val(held).id \in DOMAIN file'
       /\ file'[Val(held).id] = to_dict(Val(held'))
       /\ file'[Val(held).id].trigger_count = Val(held).trigger_count + 1
       /\ ev'.result # None
       /\ Val(ev'.result).triggered
       /\ "reason" \in DOMAIN Val(ev'.result)
       /\ Len(Val(ev'.result).message) > 0

C7_TriggerCounted == [][C7_Step]_vars

\* threshold 24 and 30 hours without training, for the second time
C7_Witness ==
    /\ ev.op = "check_job"
    /\ held # None
    /\ IsNoTraining(Val(held))
    /\ Val(held).intent.trigger_data.hours = 24
    /\ ev.hours = Some(300)
    /\ ev.result # None
    /\ Val(held).trigger_count = 2

\* C8: with no last-session fact (hours_since_last absent), check_job on a
\* no_training job returns no trigger and leaves the stored record as it was:
\* trigger_count is not incremented and the local store is not written.
C8_Step ==
    (/\ ev'.op = "check_job"
     /\ held # None
     /\ IsNoTraining(Val(held))
     /\ ev'.hours = None)
    => /\ ev'.result = None
       /\ file' = file
       /\ Val(held').trigger_count = Val(held).trigger_count

C8_NoDataNoDecision == [][C8_Step]_vars

C8_Witness ==
    /\ ev.op = "check_job"
    /\ held # None
    /\ IsNoTraining(Val(held))
    /\ ev.hours = None
    /\ ev.result = None
    /\ Val(held).last_checked = Some(now - 1)
    /\ Val(held).id \in DOMAIN file
    /\ file[Val(held).id].last_checked = None

\* C9: check_job on a deload job returns a trigger result exactly when
\* days_until_deload <= days_before, where days_until_deload is
\* 7 - week_in_macro, 0 from week 7 on (so within 0..6); such a trigger does
\* not increment trigger_count.
C9_Step ==
    (/\ ev'.op = "check_job"
     /\ held # None
     /\ IsDeload(Val(held))
     /\ "days_before" \in DOMAIN Val(held).intent.trigger_data)
    => /\ ev'.week # None
       /\ LET w == Val(ev'.week)
              days_until == IF w >= 7 THEN 0 ELSE 7 - w
              days_before == Val(held).intent.trigger_data.days_before
          IN  /\ days_until \in 0..6
              /\ (ev'.result # None) <=> (days_until <= days_before)
              /\ ev'.result # None => Val(ev'.result).reason.value = days_until
       /\ Val(held').trigger_count = Val(held).trigger_count

C9_DeloadTrigger == [][C9_Step]_vars

\* three days before the deload week, with days_before = 3
C9_Witness ==
    /\ ev.op = "check_job"
    /\ held # None
    /\ IsDeload(Val(held))
    /\ ev.week = Some(4)
    /\ ev.result # None
    /\ Val(held).trigger_count = 0

\* C10: check_job on a TIME_BASED or RECURRING job never returns a trigger
\* result; it writes the job to the local store with last_checked set to the
\* time of the check and every other field of the job as it was, and leaves
\* the other records of the store alone.
C10_Step ==
    (/\ ev'.op = "check_job"
     /\ held # None
     /\ Val(held).intent.trigger_type \in {TIME_BASED, RECURRING})
    => /\ ev'.result = None
       /\ held' = Some([Val(held) EXCEPT !.last_checked = Some(now)])
       /\ DOMAIN file' = DOMAIN file \cup {Val(held).id}
       /\ file'[Val(held).id] = to_dict(Val(held'))
       /\ \A k \in DOMAIN file \ {Val(held).id} : file'[k] = file[k]

C10_OtherTypesOnlyChecked == [][C10_Step]_vars

C10_Witness ==
    /\ ev.op = "check_job"
    /\ held # None
    /\ Val(held).intent.trigger_type = RECURRING
    /\ Val(held).last_checked = Some(now - 1)
    /\ Val(held).id \in DOMAIN file
    /\ file[Val(held).id] = to_dict(Val(held))
    /\ Cardinality(DOMAIN file) = 2

(***************************************************************************)
(* Properties of the parser, checked under SpecParse.                      *)
(***************************************************************************)

\* C13: parse is total: for every input text it returns a ReminderIntent
\* without raising, and a text that matches none of the three patterns yields
\* TIME_BASED / NOTIFY with action_data.message equal to the input text and an
\* empty context_needed.
C13_ParseTotal ==
    parsed.op = "parse" =>
        /\ parsed.raised = ""
        /\ parsed.value # None
        /\ (/\ parsed.text.no_training = None
            /\ parsed.text.deload = None
            /\ ~ parsed.text.next_session)
           => LET i == Val(parsed.value)
              IN  /\ i.trigger_type = TIME_BASED
                  /\ i.action_type = NOTIFY
                  /\ i.action_data.message = parsed.text
                  /\ i.context_needed = << >>

\* "no entreno en 000...0h" with 4301 digits: int() refuses the digit string
C13_Witness ==
    /\ parsed.op = "parse"
    /\ parsed.text.no_training # None
    /\ Val(parsed.text.no_training).number.digits = INT_MAX_STR_DIGITS + 1
    /\ parsed.raised = "ValueError"
    /\ parsed.value = None

\* C14: for a text matching the no-training pattern with quantity Q and unit
\* u, the intent parse returns is CONDITIONAL / REMIND with hours H = Q when u
\* is "h" or absent and H = 24 * Q when u is "d", condition "no_training",
\* check_interval = min(H // 4, 6) and context_needed = [last_workout,
\* next_session, current_cycle]; "48h" and "2d" both give 48 and 6.
C14_NoTrainingValues ==
    (/\ parsed.op = "parse"
     /\ parsed.text.no_training # None
     /\ parsed.value # None)
    => LET m == Val(parsed.text.no_training)
           Q == m.number.value
           H == IF m.unit = "d" THEN 24 * Q ELSE Q
           i == Val(parsed.value)
       IN  /\ i.trigger_type = CONDITIONAL
           /\ i.action_type = REMIND
           /\ i.trigger_data = [condition |-> "no_training", hours |-> H,
                                check_interval |-> IF H \div 4 < 6 THEN H \div 4 ELSE 6]
           /\ i.context_needed = <<"last_workout", "next_session", "current_cycle">>
           /\ (Q = 48 /\ m.unit \in {"", "h"}) =>
                  (i.trigger_data.hours = 48 /\ i.trigger_data.check_interval = 6)
           /\ (Q = 2 /\ m.unit = "d") =>
                  (i.trigger_data.hours = 48 /\ i.trigger_data.check_interval = 6)

\* "si no entreno en 2d"
C14_Witness ==
    /\ parsed.op = "parse"
    /\ parsed.text.no_training = Some([number |-> Digits(1, 2), unit |-> "d"])
    /\ parsed.value # None
    /\ Val(parsed.value).trigger_data.hours = 48
    /\ Val(parsed.value).trigger_data.check_interval = 6

\* C15: parse tries no-training, deload-warning, next-session, default in this
\* order and returns the result of the first that matches: a no-training text
\* is CONDITIONAL even if it matches the other patterns too, a deload-warning
\* text that is not a no-training text is EVENT_BASED with {event: deload,
\* days_before: D} even if it matches next-session, and next-session alone
\* gives TIME_BASED / ASK with {when: now}.
C15_FirstMatchWins ==
    (parsed.op = "parse" /\ parsed.value # None) =>
        LET t == parsed.text
            i == Val(parsed.value)
        IN  /\ t.no_training # None => i.trigger_type = CONDITIONAL
            /\ (t.no_training = None /\ t.deload # None) =>
                   /\ i.trigger_type = EVENT_BASED
                   /\ i.trigger_data = [event |-> "deload", days_before |-> Val(t.deload).value]
            /\ (t.no_training = None /\ t.deload = None /\ t.next_session) =>
                   /\ i.trigger_type = TIME_BASED
                   /\ i.action_type = ASK
                   /\ i.trigger_data = [when |-> "now"]

\* a text that matches the three patterns at once
C15_Witness ==
    /\ parsed.op = "parse"
    /\ parsed.text.no_training # None
    /\ parsed.text.deload = Some(Digits(1, 3))
    /\ parsed.text.next_session
    /\ parsed.value # None
    /\ Val(parsed.value).trigger_type = CONDITIONAL

\* C17: to_cron_job maps an intent by its trigger_type: CONDITIONAL gives type
\* "conditional" with check_every_hours = check_interval, condition,
\* threshold_hours = hours, action "notify_with_context" and context =
\* context_needed; EVENT_BASED gives type "event_based" with event,
\* days_before, action "notify_with_context" and context; TIME_BASED and
\* RECURRING give type "simple", action "notify" and message =
\* action_data.message.
C17_CronMapping ==
    parsed.op = "to_cron_job" =>
        LET i == parsed.intent
            c == parsed.cron
        IN  /\ i.trigger_type = CONDITIONAL =>
                   c = [type |-> "conditional",
                        check_every_hours |-> i.trigger_data.check_interval,
                        condition |-> i.trigger_data.condition,
                        threshold_hours |-> i.trigger_data.hours,
                        action |-> "notify_with_context",
                        context |-> i.context_needed]
            /\ i.trigger_type = EVENT_BASED =>
                   c = [type |-> "event_based",
                        event |-> i.trigger_data.event,
                        days_before |-> i.trigger_data.days_before,
                        action |-> "notify_with_context",
                        context |-> i.context_needed]
            /\ i.trigger_type \in {TIME_BASED, RECURRING} =>
                   /\ DOMAIN c = {"type", "action", "message"}
                   /\ c.type = "simple"
                   /\ c.action = "notify"
                   /\ "message" \in DOMAIN i.action_data => c.message = i.action_data.message

\* the descriptor of "avisame del deload 3 dias antes"
C17_Witness ==
    /\ parsed.op = "to_cron_job"
    /\ parsed.intent.trigger_type = EVENT_BASED
    /\ parsed.cron.type = "event_based"
    /\ parsed.cron.days_before = 3
    /\ parsed.cron.context = <<"cycle_position", "deload_date">>

(***************************************************************************)
(* Properties of create_job, run_checks and the job status, checked under  *)
(* Spec.                                                                   *)
(***************************************************************************)

\* C11: create_job always ends with the new job present in the local store
\* in status ACTIVE with trigger_count 0, whether no remote backend is
\* configured, the remote save succeeds, or the remote save raises; a remote
\* failure does not reach the caller, who still gets the job.
C11_Step ==
    (ev'.op = "create_job" /\ ev'.raised = "") =>
        /\ ev'.remote \in {"none", "saved", "raises"}
        /\ held' # None
        /\ Val(held').id \notin DOMAIN file
        /\ Val(held').id \in DOMAIN file'
        /\ Val(held').status = "ACTIVE"
        /\ Val(held').trigger_count = 0
        /\ file'[Val(held').id].status = JobStatusValue["ACTIVE"]
        /\ file'[Val(held').id].trigger_count = 0
        /\ file'[Val(held').id].intent = to_dict(Val(held')).intent
        /\ \A k \in DOMAIN file : file'[k] = file[k]

C11_LocalAlways == [][C11_Step]_vars

\* the remote save raised: no page was made, the job is in the file
C11_Witness ==
    /\ ev.op = "create_job"
    /\ ev.remote = "raises"
    /\ notion
    /\ pages = << >>
    /\ held # None
    /\ Val(held).notion_page_id = None
    /\ Val(held).id \in DOMAIN file
    /\ file[Val(held).id].status = "activo"

\* C12: run_checks evaluates the remote backend's active jobs when a remote
\* backend is configured, its listing succeeds and is non-empty; in every
\* other case (no backend, the listing raises, the listing is empty) it
\* evaluates the local store's active jobs; a listing failure does not leave
\* run_checks.
C12_Step ==
    ev'.op = "run_checks" =>
        LET active_pages == SelectSeq(pages, LAMBDA e : e.estado = "activo")
            active_ids == { k \in DOMAIN file : file[k].status = "activo" }
            evaluated == ev'.jobs
        IN  IF notion /\ ev'.listing = "ok" /\ active_pages # << >>
            THEN /\ Len(evaluated) = Len(active_pages)
                 /\ \A i \in 1..Len(evaluated) :
                       /\ evaluated[i].notion_page_id = Some(active_pages[i].id)
                       /\ evaluated[i].intent.trigger_data = active_pages[i].condicion
            ELSE /\ { evaluated[i].id : i \in 1..Len(evaluated) } = active_ids
                 /\ Len(evaluated) = Cardinality(active_ids)
                 /\ \A i \in 1..Len(evaluated) : evaluated[i] = from_dict(file[evaluated[i].id])

C12_RemoteElseLocal == [][C12_Step]_vars

\* the listing raised and the job of the local file was evaluated instead
C12_Witness ==
    /\ ev.op = "run_checks"
    /\ ev.listing = "raises"
    /\ Len(pages) > 0
    /\ Len(ev.jobs) > 0
    /\ ev.jobs[1].id \in DOMAIN file
    /\ file[ev.jobs[1].id].last_checked = Some(now - 1)

\* The intents of the jobs the last call evaluated.
EvaluatedIntents ==
    IF ev.op = "check_job" /\ held # None THEN {Val(held).intent}
    ELSE IF ev.op = "run_checks" THEN { ev.jobs[i].intent : i \in 1..Len(ev.jobs) }
    ELSE {}

\* C16: for every intent of a job the scheduler evaluates (from parse, from
\* the local file, or rebuilt from the remote listing) the trigger_data keys
\* are determined by trigger_type: intents of one type have the keys parse
\* gives that type, a CONDITIONAL intent carries "condition" and "hours", an
\* EVENT_BASED intent carries "event" and "days_before".
C16_KeysByType ==
    \A i \in EvaluatedIntents :
        /\ \A r \in Requests :
              r.intent.trigger_type = i.trigger_type =>
                  DOMAIN r.intent.trigger_data = DOMAIN i.trigger_data
        /\ i.trigger_type = CONDITIONAL => {"condition", "hours"} \subseteq DOMAIN i.trigger_data
        /\ i.trigger_type = EVENT_BASED => {"event", "days_before"} \subseteq DOMAIN i.trigger_data

\* a CONDITIONAL job rebuilt from the remote listing whose trigger_data is the
\* descriptor of to_cron_job: "threshold_hours" in place of "hours"
C16_Witness ==
    /\ ev.op = "run_checks"
    /\ ev.listing = "ok"
    /\ Len(ev.jobs) > 0
    /\ ev.jobs[1].intent.trigger_type = CONDITIONAL
    /\ "hours" \notin DOMAIN ev.jobs[1].intent.trigger_data
    /\ "threshold_hours" \in DOMAIN ev.jobs[1].intent.trigger_data

\* C18: no Scheduler operation (create_job, check_job, run_checks) changes the
\* stored status of a job that is PAUSED or TRIGGERED back to ACTIVE, also
\* when check_job is called on a job object obtained before update_status
\* paused the job; only update_status makes that transition.
C18_Step ==
    \A k \in DOMAIN file :
        (/\ file[k].status \in {"pausado", "disparado"}
         /\ k \in DOMAIN file'
         /\ file'[k].status = "activo")
        => ev'.op = "update_status"

C18_NoReactivation == [][C18_Step]_vars

\* the job was paused in the file and a check of the object created before
\* wrote it back as active
C18_Witness ==
    /\ ev.op = "check_job"
    /\ held # None
    /\ Val(held).id \in DOMAIN file
    /\ ev.stored = Some("pausado")
    /\ Val(held).status = "ACTIVE"
    /\ Val(held).last_checked = Some(now - 1)
    /\ file[Val(held).id].status = "activo"
    /\ file[Val(held).id].last_checked = Some(now - 1)

\* C19: a job whose trigger condition holds when it is evaluated goes from
\* ACTIVE to the fired state TRIGGERED, so a later run_checks does not list it
\* as active again.
C19_Step ==
    /\ (ev'.op = "check_job" /\ ev'.result # None /\ held # None) =>
           /\ Val(held').status = "TRIGGERED"
           /\ Val(held).id \in DOMAIN file'
           /\ file'[Val(held).id].status = "disparado"
    /\ ev'.op = "run_checks" =>
           \A i \in 1..Len(ev'.triggered) :
               /\ ev'.triggered[i].job_id \in DOMAIN file'
               /\ file'[ev'.triggered[i].job_id].status = "disparado"

C19_TriggerFires == [][C19_Step]_vars

\* a later run_checks listed the job again and it triggered a second time
C19_Witness ==
    /\ ev.op = "run_checks"
    /\ Len(ev.triggered) > 0
    /\ ev.triggered[1].job_id \in DOMAIN file
    /\ file[ev.triggered[1].job_id].trigger_count = 2
    /\ file[ev.triggered[1].job_id].status = "activo"

(***************************************************************************)
(* Properties of the job file under two invocations, checked under         *)
(* SpecProcs.                                                              *)
(***************************************************************************)
\* Whether the file shows what the operation wrote.
Kept(op) ==
    IF op.name = "save"
    THEN op.job.id \in DOMAIN file /\ file[op.job.id] = to_dict(op.job)
    ELSE op.job_id \in DOMAIN file /\ file[op.job_id].status = JobStatusValue[op.status]

BothDone == \A p \in Procs : procs.proc[p].pc = "done"

\* C20: the job file is updated by an unlocked load-all / modify /
\* rewrite-all sequence: when the save or update_status steps of two
\* invocations interleave an update can be lost, while every order in which
\* they do not interleave keeps the updates of both (operations on two
\* different jobs).
C20_SequentialKeepsBoth ==
    (/\ BothDone
     /\ ~ procs.interleaved
     /\ TargetId(procs.proc[1].op) # TargetId(procs.proc[2].op))
    => \A p \in Procs : Kept(procs.proc[p].op)

\* both invocations loaded the file before either wrote it: the job saved by
\* one is absent from the final file, the status written by the other is there
C20_Witness ==
    /\ BothDone
    /\ procs.interleaved
    /\ procs.proc[1].op.name = "save"
    /\ procs.proc[1].op.job.id \notin DOMAIN file
    /\ procs.proc[2].op.name = "update_status"
    /\ Kept(procs.proc[2].op)

\* C30: the day index build_context passes to get_next_session rotates: for
\* each day d of 1..4 there is a number of elapsed days at which the context
\* build_context returns has the session of day d as its next session.
C30_DayRotates ==
    context.op = "build_context" =>
        \A d \in 1..4 :
            \E days \in 0..MaxDays :
                \E ctx \in build_context(None, days) :
                    ctx.next_session.day_name = DAY_CONFIG[d].name

\* A context built in the second week of the program still selects day 1.
C30_Witness ==
    /\ context.op = "build_context"
    /\ context.days = 8
    /\ context.ctx.next_session.day_name = DAY_CONFIG[1].name

RemoteCopies(job) ==
    LET listed == NotionJobStore_get_all_active(pages)
    IN  { listed[i] : i \in { n \in 1..Len(listed) :
                                  listed[n].notion_page_id = job.notion_page_id } }

\* Whether check_job(job) can return a trigger for this workout lookup and
\* this number of elapsed days.
Decisions(job, workout, days) ==
    { o.result # None : o \in check_job(job, file, now, workout, days) }

\* C21: for a job create_job saved in the remote backend, the job the remote
\* active listing reconstructs has the same trigger_type and the same
\* threshold parameters (hours, days_before) as the job create_job returned,
\* so check_job reaches the same trigger decision on both.
C21_RemoteEquivalent ==
    (ev.op = "create_job" /\ ev.remote = "saved") =>
        LET j == Val(ev.returned)
        IN  /\ RemoteCopies(j) # {}
            /\ \A r \in RemoteCopies(j) :
                  /\ r.intent.trigger_type = j.intent.trigger_type
                  /\ \A k \in {"hours", "days_before"} \cap DOMAIN j.intent.trigger_data :
                        /\ k \in DOMAIN r.intent.trigger_data
                        /\ r.intent.trigger_data[k] = j.intent.trigger_data[k]
                  /\ \A w \in WorkoutOutcomes, d \in DaysSinceStart :
                        Decisions(r, w, d) = Decisions(j, w, d)

\* a 48h no-training job whose remote copy is TIME_BASED, without "hours",
\* and never triggers where the local job does
C21_Witness ==
    /\ ev.op = "create_job"
    /\ ev.remote = "saved"
    /\ IsNoTraining(Val(ev.returned))
    /\ Val(ev.returned).intent.trigger_data.hours = 48
    /\ \E r \in RemoteCopies(Val(ev.returned)) :
          /\ r.intent.trigger_type = TIME_BASED
          /\ "hours" \notin DOMAIN r.intent.trigger_data
          /\ \E w \in WorkoutOutcomes, d \in DaysSinceStart :
                /\ Decisions(Val(ev.returned), w, d) = {TRUE}
                /\ Decisions(r, w, d) = {FALSE}

\* C22: in create_job the local save comes before any remote save: when the
\* local save raises, the error reaches the caller, no job is returned and
\* no remote record is created; when the remote save succeeds, the local
\* record is the one written before the remote identifier existed.
C22_Step ==
    ev'.op = "create_job" =>
        /\ ev'.raised # "" =>
              /\ ev'.returned = None
              /\ ev'.remote = "not_tried"
              /\ pages' = pages
        /\ ev'.raised = "" =>
              /\ ev'.returned # None
              /\ Val(ev'.returned).id \in DOMAIN file'
              /\ Len(pages') > Len(pages) =>
                    file'[Val(ev'.returned).id].notion_page_id = None

C22_LocalBeforeRemote == [][C22_Step]_vars

\* the local save raised while a remote backend was configured
C22_Witness ==
    /\ ev.op = "create_job"
    /\ ev.raised = "OSError"
    /\ ev.returned = None
    /\ notion
    /\ pages = << >>
    /\ file = EmptyFile

\* C29: when create_job returns, the local record under the returned job's
\* id equals the returned job in every field, the remote identifier a
\* successful remote save wrote back included.
C29_RecordEqualsReturned ==
    (ev.op = "create_job" /\ ev.returned # None) =>
        /\ Val(ev.returned).id \in DOMAIN file
        /\ file[Val(ev.returned).id] = to_dict(Val(ev.returned))

\* the returned job carries the page id, the record saved before it does not
C29_Witness ==
    /\ ev.op = "create_job"
    /\ ev.remote = "saved"
    /\ ev.returned # None
    /\ Val(ev.returned).notion_page_id # None
    /\ Val(ev.returned).id \in DOMAIN file
    /\ file[Val(ev.returned).id].notion_page_id = None
    /\ [file[Val(ev.returned).id] EXCEPT !.notion_page_id = Val(ev.returned).notion_page_id]
         = to_dict(Val(ev.returned))

(***************************************************************************)
(* Failures inside an evaluation, checked under Spec.                      *)
(***************************************************************************)

\* The entries of a run_checks result that belong to job_id.
EntriesFor(triggered, job_id) ==
    { n \in 1..Len(triggered) : triggered[n].job_id = job_id }

\* C23: a failure of get_last_workout during check_job of a no_training job
\* counts as an absent workout: check_job returns no trigger and does not
\* increment trigger_count, in the job object or in the store, and
\* run_checks goes on to evaluate every remaining job of its listing.
C23_Step ==
    /\ (/\ ev'.op = "check_job"
        /\ ev'.workout = "raises"
        /\ IsNoTraining(Val(held)))
       => /\ ev'.result = None
          /\ ev'.hours = None
          /\ Val(held').trigger_count = Val(held).trigger_count
          /\ \A k \in DOMAIN file :
                k \in DOMAIN file' /\ file'[k].trigger_count = file[k].trigger_count
    /\ ev'.op = "run_checks"
       => /\ ev'.checked = [i \in 1..Len(ev'.jobs) |-> ev'.jobs[i].id]
          /\ \A i \in 1..Len(ev'.jobs) :
                (IsNoTraining(ev'.jobs[i]) /\ ev'.workouts[i].kind = "raises")
                => /\ EntriesFor(ev'.triggered, ev'.jobs[i].id) = {}
                   /\ ev'.jobs[i].id \in DOMAIN file
                       => file'[ev'.jobs[i].id].trigger_count
                            = file[ev'.jobs[i].id].trigger_count

C23_LookupFailureIsAbsent == [][C23_Step]_vars

\* the lookup of the first job of a run failed, the second job triggered
C23_Witness ==
    /\ ev.op = "run_checks"
    /\ Len(ev.jobs) >= 2
    /\ IsNoTraining(ev.jobs[1])
    /\ ev.workouts[1].kind = "raises"
    /\ Len(ev.checked) = Len(ev.jobs)
    /\ Len(ev.triggered) = 1
    /\ ev.triggered[1].job_id = ev.jobs[2].id
    /\ file[ev.jobs[1].id].trigger_count = 0

\* The ids create_job has generated so far.
AllocatedIds == { <<"job", n>> : n \in 1..allocated }

\* C24: the set of job ids in the local store is exactly the set of ids
\* create_job allocated: a call that returns a job adds its id, and no other
\* call (check_job, run_checks over local or remote-listed jobs,
\* update_status, get) adds or removes a key; an identifier of the remote
\* backend is never a key of the local store.
C24_Step ==
    LET created == IF ev'.op = "create_job" /\ ev'.returned # None
                   THEN {Val(ev'.returned).id} ELSE {}
    IN  /\ DOMAIN file' = DOMAIN file \cup created
        /\ DOMAIN file' \subseteq AllocatedIds'

C24_LocalIdsAreAllocated == [][C24_Step]_vars

\* run_checks over the remote listing left a record under the page's id
C24_Witness ==
    /\ ev.op = "run_checks"
    /\ ev.listing = "ok"
    /\ Len(ev.jobs) = 1
    /\ ev.jobs[1].notion_page_id # None
    /\ ev.jobs[1].id = First8(Val(ev.jobs[1].notion_page_id))
    /\ ev.jobs[1].id \in DOMAIN file
    /\ ev.jobs[1].id \notin AllocatedIds
    /\ Cardinality(DOMAIN file) = 2
    /\ allocated = 1

\* C26: run_checks evaluates each job of the active listing exactly once, in
\* the order of the listing, and returns exactly one entry (job id, user_id)
\* per triggered job in that order; the listing holds the jobs whose status is
\* ACTIVE in the backend listed, so a job stored as PAUSED, TRIGGERED or
\* COMPLETED at that time is not evaluated.
C26_Step ==
    ev'.op = "run_checks" =>
        LET jobs == ev'.jobs
            ids == [i \in 1..Len(jobs) |-> jobs[i].id]
            trig == ev'.triggered
            remote == IF notion /\ ev'.listing = "ok"
                      THEN SelectSeq(pages, LAMBDA e : e.estado = "activo") ELSE << >>
            active == SelectSeq(file_keys, LAMBDA k : file[k].status = "activo")
        IN  /\ ev'.checked = ids
            /\ \A i, j \in 1..Len(ids) : i # j => ids[i] # ids[j]
            /\ [n \in 1..Len(trig) |-> trig[n].job_id]
                 = SelectSeq(ids, LAMBDA id : EntriesFor(trig, id) # {})
            /\ \A n \in 1..Len(trig) :
                  /\ trig[n].triggered
                  /\ \E i \in 1..Len(jobs) :
                        jobs[i].id = trig[n].job_id /\ jobs[i].user_id = trig[n].user_id
            /\ \A i \in 1..Len(jobs) :
                  /\ jobs[i].status = "ACTIVE"
                  /\ IsNoTraining(jobs[i]) =>
                        (EntriesFor(trig, ids[i]) # {}
                         <=> /\ ev'.workouts[i].kind = "entry"
                             /\ ev'.workouts[i].entry.hours_ago
                                  > Hours(DictGet(jobs[i].intent.trigger_data, "hours", 48)))
            /\ IF remote # << >>
               THEN ids = [i \in 1..Len(remote) |-> First8(remote[i].id)]
               ELSE ids = active

C26_EachActiveJobOnce == [][C26_Step]_vars

\* two active jobs, both triggered: two entries in the order of the listing
C26_Witness ==
    /\ ev.op = "run_checks"
    /\ Len(ev.jobs) = 2
    /\ ev.checked = <<ev.jobs[1].id, ev.jobs[2].id>>
    /\ Len(ev.triggered) = 2
    /\ ev.triggered[1].job_id = ev.jobs[1].id
    /\ ev.triggered[2].job_id = ev.jobs[2].id
    /\ ev.triggered[1].user_id # ev.triggered[2].user_id

\* The steps of create_job and check_job that call JobStore.save: create_job
\* when the save returns, check_job unless it returns at "hours_since_last
\* is None" or returns a deload trigger.
Saves ==
    \/ ev'.op = "create_job" /\ ev'.raised = ""
    \/ /\ ev'.op = "check_job"
       /\ IsNoTraining(Val(held)) => ev'.hours # None
       /\ IsDeload(Val(held)) => ev'.result = None

\* The job a create_job or check_job step handed to JobStore.save: create_job
\* saves the job before the remote save gives it a page id, check_job the job
\* it leaves to the caller.
SavedJob ==
    IF ev'.op = "create_job"
    THEN [Val(ev'.returned) EXCEPT !.notion_page_id = None]
    ELSE Val(held')

\* C27: JobStore.save is an upsert keyed by the job id: after save(j),
\* get(j.id) gives j and get(k) for every other k gives what it gave before;
\* saving an id that is there already keeps a single record and a single
\* key for it, holding the last value saved.
C27_Step ==
    Saves
    => LET j == SavedJob
       IN  /\ JobStore_get(file', j.id) = Some(j)
           /\ file'[j.id] = to_dict(j)
           /\ DOMAIN file' = DOMAIN file \cup {j.id}
           /\ \A k \in DOMAIN file \ {j.id} :
                 /\ file'[k] = file[k]
                 /\ JobStore_get(file', k) = JobStore_get(file, k)
           /\ Cardinality({ n \in 1..Len(file_keys') : file_keys'[n] = j.id }) = 1
           /\ Len(file_keys') = Cardinality(DOMAIN file')
           /\ j.id \in DOMAIN file => file_keys' = file_keys

C27_SaveIsUpsert == [][C27_Step]_vars

\* check_job saved a job whose id was in the file already, next to another
\* record: one record for the id, with the new counter and check time
C27_Witness ==
    /\ ev.op = "check_job"
    /\ ev.stored # None
    /\ ev.result # None
    /\ held # None
    /\ Val(held).trigger_count = 1
    /\ file[Val(held).id] = to_dict(Val(held))
    /\ Len(file_keys) = 2
    /\ Cardinality(DOMAIN file) = 2

(***************************************************************************)
(* The trigger counter over several runs, checked under SpecRemote.        *)
(***************************************************************************)

\* C25: trigger_count is never negative and grows by one per trigger
\* run_checks returns for a no_training job, listed from the local store or
\* from the remote backend: a run leaves the stored trigger_count of each
\* no_training job it listed at the count stored before the run plus the
\* number of entries the run returned for that job.
C25_Step ==
    /\ \A k \in DOMAIN file' : file'[k].trigger_count >= 0
    /\ ev'.op = "run_checks" =>
          \A i \in 1..Len(ev'.jobs) :
              IsNoTraining(ev'.jobs[i]) =>
                  LET id == ev'.jobs[i].id
                      n == Cardinality(EntriesFor(ev'.triggered, id))
                  IN  /\ n > 0 => id \in DOMAIN file'
                      /\ StoredCount(file', id) = StoredCount(file, id) + n

C25_CountsTriggers == [][C25_Step]_vars

\* a second trigger of a remote-listed job: the file held 1, the run returned
\* one more entry for the job, the file still holds 1
C25_Witness ==
    /\ ev.op = "run_checks"
    /\ ev.listing = "ok"
    /\ Len(ev.jobs) = 1
    /\ IsNoTraining(ev.jobs[1])
    /\ ev.jobs[1].notion_page_id # None
    /\ ev.jobs[1].trigger_count = 0
    /\ ev.before[1] = 1
    /\ Cardinality(EntriesFor(ev.triggered, ev.jobs[1].id)) = 1
    /\ StoredCount(file, ev.jobs[1].id) = 1

====
